---- MODULE Spec2Model ----
(***************************************************************************)
(* Verification model of the dreamers-ai dataset scripts.                  *)
(*                                                                         *)
(* Every script is an independent single-threaded batch program, so each   *)
(* script has its own specification (SpecDedupe, SpecKey, ...) over its    *)
(* own group of variables; the variables of the other scripts stay idle.   *)
(*                                                                         *)
(* Python strings are sequences of one-character strings.  json.loads of   *)
(* an "input" string is the operator json_loads, which decodes a small     *)
(* JSON-object grammar and fails on anything else.  sha256 is taken to be  *)
(* collision free: a digest is represented by the string that was hashed.  *)
(***************************************************************************)
EXTENDS Integers, Sequences, FiniteSets, TLC

VARIABLES
    \* dedupe_and_cap_per_movie.main
    dc_pc, dc_line, seen, counts, dc_written, skipped_dup, skipped_cap, fout,
    dc_last,
    \* harness applying extract_movie_key to one record
    ek_obj, ek_key, ek_done,
    \* create_train_val.py (tv_prev keeps what the previous run wrote)
    tv_pc, tv_run, tv_in, total, indices, val_idx, tv_i, ftrain, fval,
    written_train, written_val, placed, tv_prev,
    \* harness applying find_best_title_match to one file title
    fm_title, fm_keys, fm_result, fm_done,
    \* scenes_split.py
    ss_pc, movie_details_dict, ss_files, f_out, skipped_no_details,
    skipped_small, total_pairs, ss_last,
    \* script.py
    sc_pc, sc_runs, dataset_csv, processed_titles, all_files, sc_index,
    \* long_entries.main (le_in is the input file, le_fout the output file)
    le_pc, tokenizer, args, le_in, processed, le_fout, le_written,
    chunked_count, truncated_count, skipped_bad, le_last,
    \* backfill.py (bf_i is the loop's i, bf_fout the output file)
    bf_pc, bf_args, file_texts, bf_i, bf_fout, found, not_found, bf_last

dcVars == <<dc_pc, dc_line, seen, counts, dc_written, skipped_dup, skipped_cap,
            fout, dc_last>>
ekVars == <<ek_obj, ek_key, ek_done>>
tvVars == <<tv_pc, tv_run, tv_in, total, indices, val_idx, tv_i, ftrain, fval,
            written_train, written_val, placed, tv_prev>>
fmVars == <<fm_title, fm_keys, fm_result, fm_done>>
ssVars == <<ss_pc, movie_details_dict, ss_files, f_out, skipped_no_details,
            skipped_small, total_pairs, ss_last>>
scVars == <<sc_pc, sc_runs, dataset_csv, processed_titles, all_files, sc_index>>
leVars == <<le_pc, tokenizer, args, le_in, processed, le_fout, le_written,
            chunked_count, truncated_count, skipped_bad, le_last>>
bfVars == <<bf_pc, bf_args, file_texts, bf_i, bf_fout, found, not_found, bf_last>>
vars == <<dcVars, ekVars, tvVars, fmVars, ssVars, scVars, leVars, bfVars>>

\* What each script leaves alone: the variables of the other scripts.
dcOthers == <<ekVars, tvVars, fmVars, ssVars, scVars, leVars, bfVars>>
ekOthers == <<dcVars, tvVars, fmVars, ssVars, scVars, leVars, bfVars>>
tvOthers == <<dcVars, ekVars, fmVars, ssVars, scVars, leVars, bfVars>>
fmOthers == <<dcVars, ekVars, tvVars, ssVars, scVars, leVars, bfVars>>
ssOthers == <<dcVars, ekVars, tvVars, fmVars, scVars, leVars, bfVars>>
scOthers == <<dcVars, ekVars, tvVars, fmVars, ssVars, leVars, bfVars>>
leOthers == <<dcVars, ekVars, tvVars, fmVars, ssVars, scVars, bfVars>>
bfOthers == <<dcVars, ekVars, tvVars, fmVars, ssVars, scVars, leVars>>

(***************************************************************************)
(* Python string helpers                                                   *)
(***************************************************************************)
Min(a, b) == IF a <= b THEN a ELSE b
Max(a, b) == IF a >= b THEN a ELSE b

\* s[:n]
Prefix(s, n) == SubSeq(s, 1, Min(n, Len(s)))

\* s[n:]  (n is a 0-based start)
Suffix(s, n) == SubSeq(s, Min(n, Len(s)) + 1, Len(s))

\* str.isspace for one character
Whitespace == {" ", "\n"}

RECURSIVE lstrip(_)
lstrip(s) == IF s # <<>> /\ Head(s) \in Whitespace THEN lstrip(Tail(s)) ELSE s

RECURSIVE rstrip(_)
rstrip(s) ==
    IF s # <<>> /\ s[Len(s)] \in Whitespace THEN rstrip(SubSeq(s, 1, Len(s) - 1))
    ELSE s

\* str.strip()
strip(s) == lstrip(rstrip(s))

\* the elements of a finite sequence, as a set
Range(s) == {s[i] : i \in 1..Len(s)}

\* Python's None
None == <<"<None>">>

(***************************************************************************)
(* JSON-encoded "input" strings.                                           *)
(* An object is written "{" fields "}", where one character stands for one *)
(* "key": value member.  Members of the nested movie_details object are    *)
(* the "d:" characters; "i:md" says that movie_details is an object.  The  *)
(* value of an identifier member is the one-character string naming it.    *)
(***************************************************************************)
InKeys == <<"movie_title", "title", "MovieTitle", "movie", "source_file">>
MdKeys == <<"title", "movie_title", "name", "genre", "tone">>

InChar(k) ==
    CASE k = "movie_title" -> "i:movie_title"
      [] k = "title" -> "i:title"
      [] k = "MovieTitle" -> "i:MovieTitle"
      [] k = "movie" -> "i:movie"
      [] k = "source_file" -> "i:source_file"

MdChar(k) ==
    CASE k = "title" -> "d:title"
      [] k = "movie_title" -> "d:movie_title"
      [] k = "name" -> "d:name"
      [] k = "genre" -> "d:genre"
      [] k = "tone" -> "d:tone"

MemberChars ==
    {InChar(InKeys[i]) : i \in 1..Len(InKeys)} \cup {"i:md"} \cup
    {MdChar(MdKeys[i]) : i \in 1..Len(MdKeys)}

\* The result of json.loads(s): kind "error" when it raises, "list" for a
\* JSON value that is no object, "dict" with the members found.
json_loads(s) ==
    IF Len(s) >= 2 /\ s[1] = "{" /\ s[Len(s)] = "}"
       /\ \A i \in 2..(Len(s) - 1) : s[i] \in MemberChars
    THEN [kind |-> "dict",
          top |-> [k \in Range(InKeys) |->
                      IF InChar(k) \in Range(s) THEN <<InChar(k)>> ELSE <<>>],
          md_is_dict |-> "i:md" \in Range(s),
          md |-> [k \in Range(MdKeys) |->
                      IF "i:md" \in Range(s) /\ MdChar(k) \in Range(s)
                      THEN <<MdChar(k)>> ELSE <<>>]]
    ELSE IF s = <<"[", "]">>
    THEN [kind |-> "list", top |-> [k \in Range(InKeys) |-> <<>>],
          md_is_dict |-> FALSE, md |-> [k \in Range(MdKeys) |-> <<>>]]
    ELSE [kind |-> "error", top |-> [k \in Range(InKeys) |-> <<>>],
          md_is_dict |-> FALSE, md |-> [k \in Range(MdKeys) |-> <<>>]]

(***************************************************************************)
(* dedupe_and_cap_per_movie.py                                             *)
(***************************************************************************)
\* Per-movie quota.  The script sets CAP = 1000; the model runs with a small
\* quota so that a movie can reach it within MaxLines input lines.
CAP == 2

\* Number of leading characters of input and of output that sig() hashes.
SIG_PREFIX == 400

\* Number of input lines the model reads.
MaxLines == 4

\* sig(inp, out): sha256 of inp[:400] + "||" + out[:400]
sig(inp, out) == Prefix(inp, SIG_PREFIX) \o <<"|", "|">> \o Prefix(out, SIG_PREFIX)

TopKeys == <<"source_file", "movie_title", "title", "MovieTitle", "movie">>

\* The value of the first key of `keys` (in order) that d holds a truthy
\* value for, or <<>> when there is none: the loop
\*   for k in keys: if k in d and d[k]: return str(d[k]).strip()
FirstTruthy(keys, d) ==
    LET hits == {i \in 1..Len(keys) : d[keys[i]] # <<>>}
    IN  IF hits = {} THEN <<>>
        ELSE d[keys[CHOOSE i \in hits : \A j \in hits : i <= j]]

HasTruthy(keys, d) == \E i \in 1..Len(keys) : d[keys[i]] # <<>>

UNKNOWN_MOVIE == <<"UNKNOWN_MOVIE">>

\* The key built from movie_details when it holds no title: lines 54-59.
GenreKey(md) ==
    IF md["genre"] # <<>> /\ md["tone"] # <<>>
    THEN <<"__GENRE_">> \o md["genre"] \o <<"__TONE_">> \o md["tone"]
    ELSE <<"__GENRE_">> \o md["genre"]

\* Lines 64-76: the last resort, reached when nothing above returned.
LastResort(obj) ==
    LET inp    == IF obj.input_is_str THEN obj.input ELSE <<>>
        parsed == IF obj.input_is_str /\ strip(inp) # <<>> /\ Head(strip(inp)) = "{"
                  THEN json_loads(inp)
                  ELSE [kind |-> "none"]
    IN  IF ~obj.is_dict THEN UNKNOWN_MOVIE
        ELSE IF parsed.kind = "dict" /\ parsed.md_is_dict /\ parsed.md["genre"] # <<>>
        THEN <<"__GENRE_">> \o parsed.md["genre"]
        ELSE UNKNOWN_MOVIE

extract_movie_key(obj) ==
    IF ~obj.is_dict THEN LastResort(obj)
    ELSE IF HasTruthy(TopKeys, obj.top) THEN strip(FirstTruthy(TopKeys, obj.top))
    ELSE IF ~obj.input_is_str THEN LastResort(obj)
    ELSE LET parsed == json_loads(obj.input)
         IN  IF parsed.kind # "dict" THEN LastResort(obj)
             ELSE IF HasTruthy(InKeys, parsed.top)
             THEN strip(FirstTruthy(InKeys, parsed.top))
             ELSE IF ~parsed.md_is_dict THEN LastResort(obj)
             ELSE IF HasTruthy(<<"title", "movie_title", "name">>, parsed.md)
             THEN strip(FirstTruthy(<<"title", "movie_title", "name">>, parsed.md))
             ELSE IF parsed.md["genre"] # <<>> THEN GenreKey(parsed.md)
             ELSE LastResort(obj)

\* h in seen (line 105)
IsDuplicate(h, seenset) == h \in seenset

\* seen.add(h) (line 118)
SeenAddDropped(seenset, h) == seenset
SeenAdd(seenset, h) == seenset \cup {h}

\* counts[movie_key] >= CAP (line 112); a Counter reads 0 for a missing key
CountOf(c, k) == IF k \in DOMAIN c THEN c[k] ELSE 0

OverCapLoose(c, k) == CountOf(c, k) > CAP
OverCap(c, k) == CountOf(c, k) >= CAP

\* counts[movie_key] += 1 (line 119)
Incremented(c, k) ==
    [x \in DOMAIN c \cup {k} |-> IF x = k THEN CountOf(c, k) + 1 ELSE c[x]]

\* The input file: each line is blank, not JSON, or a JSON record.
Obj(sf, inp, out) ==
    [is_dict |-> TRUE,
     top |-> [k \in Range(TopKeys) |-> IF k = "source_file" THEN sf ELSE <<>>],
     input_is_str |-> TRUE, input |-> inp, output |-> out]

NoObj == Obj(<<>>, <<>>, <<>>)

LongA == [i \in 1..(SIG_PREFIX + 1) |-> "a"]
LongB == [LongA EXCEPT ![SIG_PREFIX + 1] = "b"]

JsonTitled == <<"{", "i:movie_title", "}">>

\* Records of movie "A" (one of them spelt "A "), one attributed through its
\* input JSON and one without attribution; LongA and LongB differ only in
\* their last character, and the "|" records differ in where the bar is.
DedupeRecords ==
    {Obj(<<"A">>, <<>>, <<>>), Obj(<<"A">>, <<"|">>, <<>>),
     Obj(<<"A">>, <<>>, <<"|">>), Obj(<<"A">>, LongA, <<>>),
     Obj(<<"A">>, LongB, <<>>), Obj(<<"A", " ">>, <<"|">>, <<"|">>),
     Obj(<<>>, JsonTitled, <<>>), Obj(<<>>, <<>>, <<>>)}

DedupeLines ==
    {[kind |-> "blank", obj |-> NoObj], [kind |-> "malformed", obj |-> NoObj]} \cup
    {[kind |-> "record", obj |-> o] : o \in DedupeRecords}

dc_Init ==
    /\ dc_pc = "loop"
    /\ dc_line = 0
    /\ seen = {}
    /\ counts = <<>>
    /\ dc_written = 0
    /\ skipped_dup = 0
    /\ skipped_cap = 0
    /\ fout = <<>>
    /\ dc_last = [line |-> [kind |-> "blank", obj |-> NoObj], verdict |-> "none"]

\* One iteration of `for line in fin` (lines 92-120).
dc_ReadLine(line) ==
    /\ dc_pc = "loop"
    /\ dc_line < MaxLines
    /\ dc_line' = dc_line + 1
    /\ dc_pc' = dc_pc
    /\ UNCHANGED dcOthers
    /\ LET h         == sig(line.obj.input, line.obj.output)
           movie_key == strip(extract_movie_key(line.obj))
       IN  IF line.kind # "record"
           THEN /\ dc_last' = [line |-> line, verdict |-> line.kind]
                /\ UNCHANGED <<seen, counts, dc_written, skipped_dup, skipped_cap, fout>>
           ELSE IF IsDuplicate(h, seen)
           THEN /\ skipped_dup' = skipped_dup + 1
                /\ dc_last' = [line |-> line, verdict |-> "dup"]
                /\ UNCHANGED <<seen, counts, dc_written, skipped_cap, fout>>
           ELSE IF OverCap(counts, movie_key)
           THEN /\ skipped_cap' = skipped_cap + 1
                /\ dc_last' = [line |-> line, verdict |-> "cap"]
                /\ UNCHANGED <<seen, counts, dc_written, skipped_dup, fout>>
           ELSE /\ fout' = Append(fout, line.obj)
                /\ seen' = SeenAdd(seen, h)
                /\ counts' = Incremented(counts, movie_key)
                /\ dc_written' = dc_written + 1
                /\ dc_last' = [line |-> line, verdict |-> "written"]
                /\ UNCHANGED <<skipped_dup, skipped_cap>>

\* End of the input file: the summary is printed (lines 122-127).
dc_Finish ==
    /\ dc_pc = "loop"
    /\ dc_pc' = "done"
    /\ UNCHANGED <<dc_line, seen, counts, dc_written, skipped_dup, skipped_cap,
                   fout, dc_last>>
    /\ UNCHANGED dcOthers

dc_Next == (\E line \in DedupeLines : dc_ReadLine(line)) \/ dc_Finish

(***************************************************************************)
(* create_train_val.py                                                     *)
(***************************************************************************)
\* The stop marker "\n<|end_of_scene|>": a newline, then the marker text,
\* which is written "#" (one character that is not whitespace).
STOP == <<"\n", "#">>

SEED == 42

\* Number of lines of the input file.
MaxTvLines == 3

\* max(1, int(total * VAL_PCT)) with VAL_PCT = 0.05
ValCount(n) == Max(1, (n * 5) \div 100)

\* random.Random(seed).shuffle(list(range(n))): the orders the generator can
\* leave the list in.  A generator seeded with 42 leaves exactly one (the
\* orders below are those of CPython's Mersenne Twister for n <= 8).
Seeded42 ==
    <<  <<0>>, <<1, 0>>, <<1, 0, 2>>, <<2, 1, 3, 0>>, <<3, 1, 2, 4, 0>>,
        <<3, 1, 2, 4, 0, 5>>, <<1, 3, 4, 2, 6, 0, 5>>, <<3, 4, 6, 7, 2, 5, 0, 1>> >>

Orders(n) ==
    {p \in [1..n -> 0..(n - 1)] : \A a, b \in 1..n : a # b => p[a] # p[b]}

ShuffleUnseeded(seed, n) == Orders(n)
Shuffle(seed, n) ==
    IF n = 0 THEN {<<>>}
    ELSE IF seed = 42 /\ n <= Len(Seeded42) THEN {Seeded42[n]}
    ELSE Orders(n)

\* obj["output"] = obj.get("output","").rstrip() + STOP (line 75)
WithStop(output) == rstrip(output) \o STOP

\* i in val_idx (line 77)
InVal(i, idx) == i \in idx

\* The lines of the input file: blank, not JSON, or a record; a record is
\* known by its output (all its other fields are written back as they are).
TvLines ==
    {[kind |-> "blank", output |-> <<>>], [kind |-> "malformed", output |-> <<>>],
     [kind |-> "record", output |-> <<"x", " ">>],
     [kind |-> "record", output |-> <<"x">> \o STOP]}

TvFiles(n) == [1..n -> TvLines]

\* Lines that parse and make the script raise: a JSON value that is no
\* object (obj.get, line 33) and a record whose output is null (line 75).
TvRaisingLines ==
    {[kind |-> "list", output |-> <<>>], [kind |-> "record", output |-> None]}

TvInputs ==
    UNION {[1..n -> TvLines \cup TvRaisingLines] : n \in 0..MaxTvLines}

NoRun == [file |-> <<>>, train |-> <<>>, val |-> <<>>, placed |-> <<>>]

tv_Idle ==
    /\ tv_pc = "idle"
    /\ tv_run = 0
    /\ tv_in = <<>>
    /\ total = 0
    /\ indices = <<>>
    /\ val_idx = {}
    /\ tv_i = 0
    /\ ftrain = <<>>
    /\ fval = <<>>
    /\ written_train = 0
    /\ written_val = 0
    /\ placed = <<>>
    /\ tv_prev = NoRun

tv_Init ==
    /\ tv_pc = "count"
    /\ tv_run = 1
    /\ tv_in \in TvInputs
    /\ total = 0
    /\ indices = <<>>
    /\ val_idx = {}
    /\ tv_i = 0
    /\ ftrain = <<>>
    /\ fval = <<>>
    /\ written_train = 0
    /\ written_val = 0
    /\ placed = <<>>
    /\ tv_prev = NoRun

\* Lines 20-47 on an empty file: SystemExit before anything is written.
tv_CountEmpty ==
    /\ tv_pc = "count"
    /\ Len(tv_in) = 0
    /\ tv_pc' = "exit"
    /\ UNCHANGED <<tv_run, tv_in, total, indices, val_idx, tv_i, ftrain, fval,
                   written_train, written_val, placed, tv_prev>>
    /\ UNCHANGED tvOthers

\* Lines 24-33 on a file with a line that is JSON but no object: obj.get
\* raises on that line, and nothing is written.
tv_CountRaises ==
    /\ tv_pc = "count"
    /\ \E n \in 1..Len(tv_in) : tv_in[n].kind = "list"
    /\ total' = CHOOSE n \in 1..Len(tv_in) :
                    tv_in[n].kind = "list" /\ \A m \in 1..(n - 1) : tv_in[m].kind # "list"
    /\ tv_pc' = "raised"
    /\ UNCHANGED <<tv_run, tv_in, indices, val_idx, tv_i, ftrain, fval,
                   written_train, written_val, placed, tv_prev>>
    /\ UNCHANGED tvOthers

\* Lines 20-60: the first pass counts every line, then the shuffled indices
\* and the validation set are built.
tv_Count ==
    /\ tv_pc = "count"
    /\ Len(tv_in) > 0
    /\ \A n \in 1..Len(tv_in) : tv_in[n].kind # "list"
    /\ total' = Len(tv_in)
    /\ \E shuffled \in Shuffle(SEED, Len(tv_in)) :
          /\ indices' = shuffled
          /\ val_idx' = {shuffled[j] : j \in 1..Min(ValCount(Len(tv_in)), Len(tv_in))}
    /\ tv_pc' = "write"
    /\ UNCHANGED <<tv_run, tv_in, tv_i, ftrain, fval, written_train, written_val,
                   placed, tv_prev>>
    /\ UNCHANGED tvOthers

\* One iteration of `for i, line in enumerate(fin)` (lines 66-82); tv_i is i.
tv_WriteLine ==
    /\ tv_pc = "write"
    /\ tv_i < Len(tv_in)
    /\ tv_i' = tv_i + 1
    /\ LET line     == tv_in[tv_i + 1]
           out_line == [kind |-> "record", output |-> WithStop(line.output)]
       IN  IF line.kind # "record"
           THEN /\ placed' = Append(placed, [side |-> "none", output |-> <<>>])
                /\ tv_pc' = tv_pc
                /\ UNCHANGED <<ftrain, fval, written_train, written_val>>
           ELSE IF line.output = None
           THEN /\ placed' = Append(placed, [side |-> "none", output |-> <<>>])
                /\ tv_pc' = "raised"
                /\ UNCHANGED <<ftrain, fval, written_train, written_val>>
           ELSE IF InVal(tv_i, val_idx)
           THEN /\ fval' = Append(fval, out_line)
                /\ written_val' = written_val + 1
                /\ placed' = Append(placed, [side |-> "val", output |-> out_line.output])
                /\ tv_pc' = tv_pc
                /\ UNCHANGED <<ftrain, written_train>>
           ELSE /\ ftrain' = Append(ftrain, out_line)
                /\ written_train' = written_train + 1
                /\ placed' = Append(placed, [side |-> "train", output |-> out_line.output])
                /\ tv_pc' = tv_pc
                /\ UNCHANGED <<fval, written_val>>
    /\ UNCHANGED <<tv_run, tv_in, total, indices, val_idx, tv_prev>>
    /\ UNCHANGED tvOthers

\* Lines 84-85: end of the second pass.
tv_Done ==
    /\ tv_pc = "write"
    /\ tv_i = Len(tv_in)
    /\ tv_pc' = "done"
    /\ UNCHANGED <<tv_run, tv_in, total, indices, val_idx, tv_i, ftrain, fval,
                   written_train, written_val, placed, tv_prev>>
    /\ UNCHANGED tvOthers

\* The script is run again, on a file with as many lines (the same file, or
\* one whose lines differ); what the first run wrote is kept for comparison.
tv_RunAgain ==
    /\ tv_pc = "done"
    /\ tv_run = 1
    /\ tv_prev' = [file |-> tv_in, train |-> ftrain, val |-> fval, placed |-> placed]
    /\ tv_in' \in TvFiles(Len(tv_in))
    /\ tv_run' = 2
    /\ tv_pc' = "count"
    /\ total' = 0
    /\ indices' = <<>>
    /\ val_idx' = {}
    /\ tv_i' = 0
    /\ ftrain' = <<>>
    /\ fval' = <<>>
    /\ written_train' = 0
    /\ written_val' = 0
    /\ placed' = <<>>
    /\ UNCHANGED tvOthers

tv_Next ==
    tv_CountEmpty \/ tv_CountRaises \/ tv_Count \/ tv_WriteLine \/ tv_Done \/ tv_RunAgain

(***************************************************************************)
(* scenes_split.py: title matching                                         *)
(***************************************************************************)
\* str.lower() for one character
Lower(c) ==
    CASE c = "A" -> "a" [] c = "B" -> "b" [] c = "C" -> "c" [] c = "D" -> "d"
      [] c = "M" -> "m" [] c = "X" -> "x"
      [] OTHER -> c

\* ord(c), for comparing strings
Ord(c) ==
    CASE c = " " -> 32 [] c = "-" -> 45 [] c = "." -> 46
      [] c = "A" -> 65 [] c = "B" -> 66 [] c = "C" -> 67 [] c = "D" -> 68
      [] c = "M" -> 77 [] c = "X" -> 88
      [] c = "_" -> 95
      [] c = "a" -> 97 [] c = "b" -> 98 [] c = "c" -> 99 [] c = "d" -> 100
      [] c = "m" -> 109 [] c = "p" -> 112 [] c = "q" -> 113 [] c = "t" -> 116
      [] c = "x" -> 120 [] c = "y" -> 121 [] c = "z" -> 122
      [] OTHER -> 0

\* [^\w\s]: neither a word character nor whitespace
IsPunct(c) == c \in {"-", ".", "'", ":", "!"}

\* re.sub(r"\s+", " ", s)
RECURSIVE CollapseSpaces(_)
CollapseSpaces(s) ==
    IF s = <<>> THEN <<>>
    ELSE IF Head(s) \in Whitespace
    THEN <<" ">> \o CollapseSpaces(lstrip(s))
    ELSE <<Head(s)>> \o CollapseSpaces(Tail(s))

normalize_title(s) ==
    LET lowered  == strip([i \in 1..Len(s) |-> Lower(s[i])])
        NotPunct(c) == ~IsPunct(c)
        unpunct  == SelectSeq(lowered, NotPunct)
    IN  CollapseSpaces(unpunct)

\* a < b for Python strings
RECURSIVE StrLess(_, _)
StrLess(a, b) ==
    IF b = <<>> THEN FALSE
    ELSE IF a = <<>> THEN TRUE
    ELSE IF Ord(Head(a)) # Ord(Head(b)) THEN Ord(Head(a)) < Ord(Head(b))
    ELSE StrLess(Tail(a), Tail(b))

\* difflib.SequenceMatcher.find_longest_match: the longest block common to a
\* and b; of those the one that starts earliest in a, then earliest in b.
LongestMatch(a, b) ==
    LET Blocks == {m \in (1..Len(a)) \X (1..Len(b)) \X (1..Min(Len(a), Len(b))) :
                      /\ m[1] + m[3] - 1 <= Len(a)
                      /\ m[2] + m[3] - 1 <= Len(b)
                      /\ SubSeq(a, m[1], m[1] + m[3] - 1) = SubSeq(b, m[2], m[2] + m[3] - 1)}
    IN  IF Blocks = {} THEN <<1, 1, 0>>
        ELSE CHOOSE m \in Blocks :
                \A o \in Blocks :
                    \/ m[3] > o[3]
                    \/ (m[3] = o[3] /\ m[1] < o[1])
                    \/ (m[3] = o[3] /\ m[1] = o[1] /\ m[2] <= o[2])

\* The number of matched characters: the sum of get_matching_blocks' sizes.
RECURSIVE Matches(_, _)
Matches(a, b) ==
    IF a = <<>> \/ b = <<>> THEN 0
    ELSE LET m == LongestMatch(a, b)
         IN  IF m[3] = 0 THEN 0
             ELSE m[3]
                  + Matches(SubSeq(a, 1, m[1] - 1), SubSeq(b, 1, m[2] - 1))
                  + Matches(SubSeq(a, m[1] + m[3], Len(a)), SubSeq(b, m[2] + m[3], Len(b)))

\* SequenceMatcher(None, a, b).ratio() = 2.0 * M / T, as the fraction <<2M, T>>
Ratio(a, b) ==
    IF Len(a) + Len(b) = 0 THEN <<1, 1>> ELSE <<2 * Matches(a, b), Len(a) + Len(b)>>

\* ratio >= cutoff, the cutoff given in tenths
AtLeast(r, tenths) == 10 * r[1] >= tenths * r[2]

\* The cutoff of both get_close_matches calls is 0.7.
CUTOFF_TENTHS == 7

\* (score1, x1) < (score2, x2) for the tuples heapq.nlargest compares
TupleLess(r1, x1, r2, x2) ==
    \/ r1[1] * r2[2] < r2[1] * r1[2]
    \/ (r1[1] * r2[2] = r2[1] * r1[2] /\ StrLess(x1, x2))

\* difflib.get_close_matches(word, possibilities, n=1, cutoff=0.7): the best
\* possibility, or None when the result list is empty.
get_close_match(word, possibilities) ==
    LET score == [i \in 1..Len(possibilities) |-> Ratio(possibilities[i], word)]
        close == {i \in 1..Len(possibilities) : AtLeast(score[i], CUTOFF_TENTHS)}
    IN  IF close = {} THEN None
        ELSE possibilities[CHOOSE i \in close :
                \A j \in close :
                    ~TupleLess(score[i], possibilities[i], score[j], possibilities[j])]

\* re.split(r"[_\-]", s)[0].strip()
BeforeSeparator(s) ==
    LET seps == {i \in 1..Len(s) : s[i] \in {"_", "-"}}
    IN  IF seps = {} THEN strip(s)
        ELSE strip(SubSeq(s, 1, (CHOOSE i \in seps : \A j \in seps : i <= j) - 1))

\* The first key of title_keys whose normalized form is n, or None.
FirstNormalized(n, title_keys) ==
    LET hits == {i \in 1..Len(title_keys) : normalize_title(title_keys[i]) = n}
    IN  IF hits = {} THEN None
        ELSE title_keys[CHOOSE i \in hits : \A j \in hits : i <= j]

\* Lines 46-57: what find_best_title_match does once the exact and the
\* normalized match have failed.
FuzzyStages(filename_title, title_keys) ==
    LET norm_filename == normalize_title(filename_title)
        raw       == get_close_match(filename_title, title_keys)
        alt       == BeforeSeparator(filename_title)
        norm_keys == [i \in 1..Len(title_keys) |-> normalize_title(title_keys[i])]
        normed    == get_close_match(norm_filename, norm_keys)
    IN  IF raw # None THEN raw
        ELSE IF alt \in Range(title_keys) THEN alt
        ELSE IF normed # None THEN FirstNormalized(normed, title_keys)
        ELSE None

find_best_title_match_fuzzy_first(filename_title, title_keys) ==
    LET fuzzy == FuzzyStages(filename_title, title_keys)
    IN  IF filename_title \in Range(title_keys) THEN filename_title
        ELSE IF fuzzy # None THEN fuzzy
        ELSE FirstNormalized(normalize_title(filename_title), title_keys)

find_best_title_match(filename_title, title_keys) ==
    LET normalized == FirstNormalized(normalize_title(filename_title), title_keys)
    IN  IF filename_title \in Range(title_keys) THEN filename_title
        ELSE IF normalized # None THEN normalized
        ELSE FuzzyStages(filename_title, title_keys)

\* Titles of files and of CSV rows.
TitlePool ==
    {<<"a", "b">>, <<"A", "b">>, <<"a", "b", "c">>, <<"A", "b", "c">>,
     <<"a", "-", "b", "c">>, <<"a">>, <<"A", "B", "C", "D">>,
     <<"a", "b", "c", "x">>, <<"a", "_", "z", "z", "z">>, <<"q">>}

\* Number of rows of the CSV in the title-matching harness.
MaxKeys == 2

\* The keys of a dict: no title twice.
KeyLists(pool, n) ==
    {ks \in UNION {[1..m -> pool] : m \in 0..n} :
        \A i, j \in 1..Len(ks) : i # j => ks[i] # ks[j]}

fm_Idle == fm_title = <<>> /\ fm_keys = <<>> /\ fm_result = None /\ fm_done = FALSE

fm_Init ==
    /\ fm_title \in TitlePool
    /\ fm_keys \in KeyLists(TitlePool, MaxKeys)
    /\ fm_result = None
    /\ fm_done = FALSE

fm_Match ==
    /\ ~fm_done
    /\ fm_result' = find_best_title_match(fm_title, fm_keys)
    /\ fm_done' = TRUE
    /\ UNCHANGED <<fm_title, fm_keys>>
    /\ UNCHANGED fmOthers

fm_Next == fm_Match

(***************************************************************************)
(* scenes_split.py: splitting a script and writing the scene pairs         *)
(***************************************************************************)
\* A script is a string in which "H" stands for a scene-heading word ("INT.",
\* "EXT.", "INT -", ...).  The pattern splits before a heading that starts a
\* line, and before the newline in front of it.
SplitPoints(c) == {q \in 2..Len(c) : c[q] = "H" /\ c[q - 1] = "\n"}

RECURSIVE Segments(_)
Segments(c) ==
    IF SplitPoints(c) = {} THEN <<c>>
    ELSE LET q == CHOOSE x \in SplitPoints(c) : \A y \in SplitPoints(c) : x <= y
         IN  <<SubSeq(c, 1, q - 1)>> \o Segments(SubSeq(c, q, Len(c)))

split_script_into_scenes(script_content) ==
    LET segs     == Segments(script_content)
        stripped == [i \in 1..Len(segs) |-> strip(segs[i])]
        NonEmpty(x) == x # <<>>
    IN  SelectSeq(stripped, NonEmpty)

\* details.get(column, 'N/A'); a column the CSV lacks is written Missing
Missing == "<missing>"
DetailsGet(details, column) ==
    IF details[column] = Missing THEN "N/A" ELSE details[column]

INSTRUCTION == "You are a screenwriter. ..."

\* Lines 130-154: the examples written for one file.  "input" holds the dict
\* that json.dumps encodes.
TrainingExample(details, previous_scene, current_scene) ==
    [instruction |-> INSTRUCTION,
     input |-> [movie_details |-> [genre |-> DetailsGet(details, "Genre"),
                                   theme |-> DetailsGet(details, "Theme"),
                                   tone |-> DetailsGet(details, "Tone")],
                previous_scene |-> previous_scene],
     output |-> current_scene]

PairsSkippingFirst(scenes, details) ==
    [i \in 1..(Len(scenes) - 2) |->
        TrainingExample(details, scenes[i + 1], scenes[i + 2])]
Pairs(scenes, details) ==
    [i \in 1..(Len(scenes) - 1) |->
        TrainingExample(details, scenes[i], scenes[i + 1])]

\* The row of the CSV with the given title.
DetailsOf(csv, title) ==
    (CHOOSE row \in Range(csv) : row.title = title).details

TitleKeys(csv) == [i \in 1..Len(csv) |-> csv[i].title]

\* Lines 98-109: the title to look up, from the file name without extension.
MatchTitle(stem, title_keys) ==
    LET first == find_best_title_match(BeforeSeparator(stem), title_keys)
    IN  IF first # None THEN first ELSE find_best_title_match(stem, title_keys)

\* Number of rows of dataset.csv and number of files in raw_texts.
MaxCsvRows == 2
MaxFiles == 2

CsvTitles == {<<"a", "b">>, <<"a">>, <<"a", "b", "c">>}
CsvDetails ==
    {[Genre |-> "drama", Theme |-> "loss", Tone |-> "dark"],
     [Genre |-> "comedy", Theme |-> Missing, Tone |-> "light"]}

Csvs ==
    {csv \in UNION {[1..m -> [title : CsvTitles, details : CsvDetails]] :
                        m \in 0..MaxCsvRows} :
        \A i, j \in 1..Len(csv) : i # j => csv[i].title # csv[j].title}

\* The files of raw_texts: name without ".txt", whether the file can be
\* read, and its content.
ScriptFiles ==
    {[stem |-> st, readable |-> TRUE, content |-> c] :
        st \in {<<"a", "b">>, <<"a", "-", "b", "c">>, <<"q">>},
        c \in {<<"x">>,
               <<"H", "x", "\n", "H", "y">>,
               <<"x", "\n", "H", "\n", "H", "y", "\n">>,
               <<"\n", "H", "x", " ", "H", "\n", "\n", "H", "\n", "H">>}}
    \cup {[stem |-> <<"a", "b">>, readable |-> FALSE, content |-> <<>>]}

NoFile == [stem |-> <<>>, readable |-> FALSE, content |-> <<>>]

ss_Idle ==
    /\ ss_pc = "idle"
    /\ movie_details_dict = <<>>
    /\ ss_files = 0
    /\ f_out = <<>>
    /\ skipped_no_details = 0
    /\ skipped_small = 0
    /\ total_pairs = 0
    /\ ss_last = [file |-> NoFile, match_title |-> None, verdict |-> "none"]

ss_Init ==
    /\ ss_pc = "loop"
    /\ movie_details_dict \in Csvs
    /\ ss_files = 0
    /\ f_out = <<>>
    /\ skipped_no_details = 0
    /\ skipped_small = 0
    /\ total_pairs = 0
    /\ ss_last = [file |-> NoFile, match_title |-> None, verdict |-> "none"]

\* One iteration of `for file_name in file_names` (lines 96-154).
ss_ProcessFile(file) ==
    /\ ss_pc = "loop"
    /\ ss_files < MaxFiles
    /\ ss_files' = ss_files + 1
    /\ LET title_keys  == TitleKeys(movie_details_dict)
           match_title == MatchTitle(file.stem, title_keys)
           scenes      == split_script_into_scenes(file.content)
       IN  IF match_title = None
           THEN /\ skipped_no_details' = skipped_no_details + 1
                /\ ss_last' = [file |-> file, match_title |-> match_title,
                               verdict |-> "no_details"]
                /\ UNCHANGED <<f_out, skipped_small, total_pairs>>
           ELSE IF ~file.readable
           THEN /\ ss_last' = [file |-> file, match_title |-> match_title,
                               verdict |-> "unreadable"]
                /\ UNCHANGED <<f_out, skipped_no_details, skipped_small, total_pairs>>
           ELSE IF Len(scenes) < 2
           THEN /\ skipped_small' = skipped_small + 1
                /\ ss_last' = [file |-> file, match_title |-> match_title,
                               verdict |-> "small"]
                /\ UNCHANGED <<f_out, skipped_no_details, total_pairs>>
           ELSE /\ f_out' = f_out \o Pairs(scenes, DetailsOf(movie_details_dict, match_title))
                /\ total_pairs' = total_pairs + Len(scenes) - 1
                /\ ss_last' = [file |-> file, match_title |-> match_title,
                               verdict |-> "written"]
                /\ UNCHANGED <<skipped_no_details, skipped_small>>
    /\ UNCHANGED <<ss_pc, movie_details_dict>>
    /\ UNCHANGED ssOthers

\* Lines 156-162: the summary after the last file.
ss_Finish ==
    /\ ss_pc = "loop"
    /\ ss_pc' = "done"
    /\ UNCHANGED <<movie_details_dict, ss_files, f_out, skipped_no_details,
                   skipped_small, total_pairs, ss_last>>
    /\ UNCHANGED ssOthers

ss_Next == (\E file \in ScriptFiles : ss_ProcessFile(file)) \/ ss_Finish

(***************************************************************************)
(* script.py                                                               *)
(***************************************************************************)
\* A file name is a sequence of words, separators and a final extension:
\* <<"Alien", "_", "1", ".txt">> is "Alien_1.txt".  A title is a sequence of
\* words.
HEADER == [title |-> <<"MovieTitle">>, rest |-> "Genre,Theme,Tone,Length (min)"]

\* os.path.splitext(file_name)[0].split("_")[0]  (line 47)
TitleOfFile(file_name) ==
    LET stem == SubSeq(file_name, 1, Len(file_name) - 1)
        seps == {i \in 1..Len(stem) : stem[i] = "_"}
    IN  IF seps = {} THEN stem
        ELSE SubSeq(stem, 1, (CHOOSE i \in seps : \A j \in seps : i <= j) - 1)

\* Lines 19-29: the first cell of every row after the first line.
TitlesIn(rows) == {rows[i].title : i \in 2..Len(rows)}

\* Number of runs of the script, and of .txt files in raw_texts.
MaxRuns == 3
MaxScripts == 2

RawTexts ==
    {<<"Alien", "_", "1", ".txt">>, <<"Alien", "_", "2", ".txt">>,
     <<"MovieTitle", ".txt">>}

\* os.listdir: the names of the directory, each once, in any order.
Listings ==
    {fs \in UNION {[1..m -> RawTexts] : m \in 0..MaxScripts} :
        \A i, j \in 1..Len(fs) : i # j => fs[i] # fs[j]}

NoCsv == [exists |-> FALSE, rows |-> <<>>]

sc_Idle ==
    /\ sc_pc = "idle"
    /\ sc_runs = 0
    /\ dataset_csv = NoCsv
    /\ processed_titles = {}
    /\ all_files = <<>>
    /\ sc_index = 0

\* Before the first run there is no dataset.csv.
sc_Init ==
    /\ sc_pc = "start"
    /\ sc_runs = 0
    /\ dataset_csv = NoCsv
    /\ processed_titles = {}
    /\ all_files = <<>>
    /\ sc_index = 0

\* Lines 19-45 of one run: read the titles already in the CSV, list the
\* scripts, open the CSV for appending and write the header if no title was
\* read.
sc_Start ==
    /\ sc_pc = "start"
    /\ sc_runs < MaxRuns
    /\ sc_runs' = sc_runs + 1
    /\ sc_index' = 0
    /\ IF dataset_csv.exists /\ dataset_csv.rows = <<>>
       THEN \* next(reader) on an empty file: StopIteration is not caught
            /\ sc_pc' = "crashed"
            /\ UNCHANGED <<dataset_csv, processed_titles, all_files>>
       ELSE /\ processed_titles' = TitlesIn(dataset_csv.rows)
            /\ all_files' \in Listings
            /\ dataset_csv' =
                  [exists |-> TRUE,
                   rows |-> IF TitlesIn(dataset_csv.rows) = {}
                            THEN Append(dataset_csv.rows, HEADER)
                            ELSE dataset_csv.rows]
            /\ sc_pc' = "loop"
    /\ UNCHANGED scOthers

\* One iteration of `for index, file_name in enumerate(all_files)` (lines
\* 46-88); answered says whether the query and the parsing of its answer
\* succeeded.
sc_Iterate(answered) ==
    /\ sc_pc = "loop"
    /\ sc_index < Len(all_files)
    /\ sc_index' = sc_index + 1
    /\ LET movie_title == TitleOfFile(all_files[sc_index + 1])
       IN  IF movie_title \in processed_titles
           THEN UNCHANGED <<dataset_csv, processed_titles>>
           ELSE IF answered
           THEN /\ dataset_csv' =
                      [dataset_csv EXCEPT !.rows =
                          Append(@, [title |-> movie_title, rest |-> "info"])]
                /\ processed_titles' = processed_titles \cup {movie_title}
           ELSE UNCHANGED <<dataset_csv, processed_titles>>
    /\ UNCHANGED <<sc_pc, sc_runs, all_files>>
    /\ UNCHANGED scOthers

\* Line 90: the run ends; the script may be run again.
sc_Finish ==
    /\ sc_pc = "loop"
    /\ sc_index = Len(all_files)
    /\ sc_pc' = "start"
    /\ UNCHANGED <<sc_runs, dataset_csv, processed_titles, all_files, sc_index>>
    /\ UNCHANGED scOthers

sc_Next == sc_Start \/ (\E answered \in BOOLEAN : sc_Iterate(answered)) \/ sc_Finish

(***************************************************************************)
(* long_entries.py                                                         *)
(***************************************************************************)
\* A JSON record is a function from its keys to its values; a value is a
\* string or None (JSON null).
\* obj.get(k, default)
Get(obj, k, default) == IF k \in DOMAIN obj THEN obj[k] ELSE default

\* v or ""
OrEmpty(v) == IF v = None THEN <<>> ELSE v

\* The external tokenizer.  A text is cut into pieces of cpt characters, one
\* token each; bos says whether the begin-of-text token is put in front;
\* the tokenizer raises on a text of more than limit characters (limit 0:
\* it never raises); decodes says whether tokenizer.decode works.
BOS == <<"<|begin_of_text|>">>

TokenizerRaises(tok, text) == tok.limit > 0 /\ Len(text) > tok.limit

\* tokenizer(text, truncation=False)["input_ids"]
input_ids(tok, text) ==
    (IF tok.bos THEN <<BOS>> ELSE <<>>) \o
    [i \in 1..((Len(text) + tok.cpt - 1) \div tok.cpt) |->
        SubSeq(text, (i - 1) * tok.cpt + 1, Min(i * tok.cpt, Len(text)))]

\* tokenizer.decode(ids, skip_special_tokens=True)
RECURSIVE decode(_)
decode(ids) ==
    IF ids = <<>> THEN <<>>
    ELSE IF Head(ids) = BOS THEN decode(Tail(ids))
    ELSE Head(ids) \o decode(Tail(ids))

\* token_length_of (lines 59-66)
token_length_of(tok, text) ==
    IF TokenizerRaises(tok, text) THEN Max(1, Len(text) \div 4)
    ELSE Len(input_ids(tok, text))

\* The matches of PARA_SPLIT_RE = \n\s*\n+ in text, as <<first, last>>
\* positions: a match runs from the first to the last newline of a stretch
\* of whitespace that holds two newlines or more.
ParaBreaks(text) ==
    LET nl == {i \in 1..Len(text) : text[i] = "\n"}
        Joined(a, b) == \A j \in a..b : text[j] \in Whitespace
    IN  {p \in nl \X nl :
            /\ p[1] < p[2]
            /\ Joined(p[1], p[2])
            /\ ~\E a \in nl : a < p[1] /\ Joined(a, p[1])
            /\ ~\E b \in nl : b > p[2] /\ Joined(p[2], b)}

\* PARA_SPLIT_RE.split(text)
ParaSplit(text) ==
    LET k == Cardinality(ParaBreaks(text))
        Nth(m) == CHOOSE p \in ParaBreaks(text) :
                      Cardinality({q \in ParaBreaks(text) : q[1] < p[1]}) = m - 1
    IN  [m \in 1..(k + 1) |->
            SubSeq(text,
                   IF m = 1 THEN 1 ELSE Nth(m - 1)[2] + 1,
                   IF m = k + 1 THEN Len(text) ELSE Nth(m)[1] - 1)]

IsParagraph(p) == strip(p) # <<>>
LongEnough(p, min_chars) == min_chars = 0 \/ Len(p) >= min_chars

\* paragraphs(text, min_chars) (lines 47-51)
paragraphs(text, min_chars) ==
    LET kept  == SelectSeq(ParaSplit(text), IsParagraph)
        paras == [i \in 1..Len(kept) |-> strip(kept[i])]
        Long(p) == LongEnough(p, min_chars)
    IN  SelectSeq(paras, Long)

\* truncate_output_tokenwise (lines 68-85): raised says that the tokenizer
\* raised on line 70 or on line 76, which nothing catches.
truncate_output_tokenwise(tok, input_text, output_text, max_tokens) ==
    LET input_len          == Len(input_ids(tok, input_text))
        allowed_for_output == max_tokens - input_len - 1
        out_ids            == input_ids(tok, output_text)
    IN  IF TokenizerRaises(tok, input_text)
        THEN [raised |-> TRUE, value |-> <<>>]
        ELSE IF allowed_for_output <= 20
        THEN [raised |-> FALSE, value |-> Prefix(output_text, 1000)]
        ELSE IF TokenizerRaises(tok, output_text)
        THEN [raised |-> TRUE, value |-> <<>>]
        ELSE IF Len(out_ids) <= allowed_for_output
        THEN [raised |-> FALSE, value |-> output_text]
        ELSE IF ~tok.decodes
        THEN [raised |-> FALSE,
              value |-> Prefix(output_text, Max(1000, allowed_for_output * 2))]
        ELSE [raised |-> FALSE,
              value |-> decode(SubSeq(out_ids, 1, allowed_for_output))]

\* json.dumps of a character: a newline is written as the escape \n
Escaped(text) == [i \in 1..Len(text) |-> IF text[i] = "\n" THEN "\\n" ELSE text[i]]

\* json.dumps(parsed_inp) after parsed_inp["previous_scene"] = prev: the
\* members of the object, then the member previous_scene ("p:" and its
\* quoted value).
DumpsWithPrevious(inp, prev) ==
    SubSeq(inp, 1, Len(inp) - 1) \o <<"p:", "\"">> \o Escaped(prev) \o <<"\"", "}">>

\* The textual prefix of the fallback on lines 205-207.
PreviousPrefix(prev) ==
    <<"Previous paragraph:", "\n">> \o prev \o <<"\n", "\n">>

\* new_obj of lines 189-207 for paragraph i (1-based here) of paras.
ChunkExample(obj, paras, i, make_prev_para) ==
    LET inp  == Get(obj, "input", None)
        prev == IF i = 1 THEN <<>> ELSE paras[i - 1]
    IN  [k \in {"instruction", "input", "output"} |->
            CASE k = "instruction" -> Get(obj, "instruction", None)
              [] k = "output" -> paras[i]
              [] k = "input" ->
                    IF ~make_prev_para THEN inp
                    ELSE IF json_loads(inp).kind = "dict"
                    THEN DumpsWithPrevious(inp, prev)
                    ELSE PreviousPrefix(prev) \o inp]

\* Lines 196-207 raise when the record has no input string: json.loads(None)
\* raises, and so does pref + None in the handler.
ChunkRaises(obj, make_prev_para) ==
    make_prev_para /\ Get(obj, "input", None) = None

\* dict(obj) with new_obj["output"] = truncated_out (lines 215-216)
WithOutput(obj, truncated_out) ==
    [k \in DOMAIN obj \cup {"output"} |->
        IF k = "output" THEN truncated_out ELSE obj[k]]

\* tlen <= args.max_tokens (line 177)
WithinBudgetStrict(tlen, max_tokens) == tlen < max_tokens
WithinBudget(tlen, max_tokens) == tlen <= max_tokens

\* --topk, at its default; the model reads fewer lines than that, so every
\* well-formed line is in the report of lines 136-151.
TOPK == 20

\* Number of lines of the input file.
MaxLeLines == 2

X(n) == [i \in 1..n |-> "x"]
Y(n) == [i \in 1..n |-> "y"]

Entry(inp, out) ==
    [k \in {"instruction", "input", "output"} |->
        CASE k = "instruction" -> <<"I">>
          [] k = "input" -> inp
          [] k = "output" -> out]

TwoParagraphs == X(80) \o <<"\n", "\n">> \o Y(80)

\* The records of the pool: a short one with a field of its own, outputs of
\* 25, 40 and of 1001 characters without a paragraph break (the latter also
\* after an input of 30 characters), outputs of two
\* paragraphs (long ones, and short ones after an input of 30 characters),
\* a record without input, one whose output is null and one whose input is
\* a JSON list.
LeRecords ==
    {[k \in {"instruction", "input", "output", "id"} |->
         CASE k = "instruction" -> <<"I">>
           [] k = "input" -> JsonTitled
           [] k = "output" -> <<"a", "b">>
           [] k = "id" -> <<"7">>],
     Entry(JsonTitled, X(25)),
     Entry(JsonTitled, X(40)),
     Entry(JsonTitled, X(1001)),
     Entry(X(30), X(1001)),
     Entry(JsonTitled, TwoParagraphs),
     Entry(X(30), <<"a", "\n", " ", "\n", "b">>),
     [k \in {"instruction", "output"} |->
         IF k = "instruction" THEN <<"I">> ELSE X(40)],
     Entry(JsonTitled, None),
     Entry(<<"[", "]">>, TwoParagraphs)}

NoRecord == Entry(<<>>, <<>>)

\* A line is blank, not JSON, a JSON value that is no object, or a record.
LeLines ==
    {[kind |-> "blank", obj |-> NoRecord], [kind |-> "malformed", obj |-> NoRecord],
     [kind |-> "list", obj |-> NoRecord]} \cup
    {[kind |-> "record", obj |-> o] : o \in LeRecords}

LeFiles == UNION {[1..n -> LeLines] : n \in 0..MaxLeLines}

Tokenizers ==
    {[cpt |-> 1, bos |-> TRUE, limit |-> 0, decodes |-> TRUE],
     [cpt |-> 4, bos |-> FALSE, limit |-> 0, decodes |-> TRUE],
     [cpt |-> 1, bos |-> TRUE, limit |-> 100, decodes |-> TRUE],
     [cpt |-> 1, bos |-> FALSE, limit |-> 0, decodes |-> FALSE]}

\* The command line: --max_tokens, --min_para_chars, --make_prev_para.
ArgSets ==
    [max_tokens : {24, 30}, min_para_chars : {0, 80}, make_prev_para : BOOLEAN]

NoStep == [path |-> "none", obj |-> NoRecord, input |-> <<>>, out |-> <<>>]

le_Idle ==
    /\ le_pc = "idle"
    /\ tokenizer = [cpt |-> 1, bos |-> TRUE, limit |-> 0, decodes |-> TRUE]
    /\ args = [max_tokens |-> 30, min_para_chars |-> 80, make_prev_para |-> FALSE]
    /\ le_in = <<>>
    /\ processed = 0
    /\ le_fout = <<>>
    /\ le_written = 0
    /\ chunked_count = 0
    /\ truncated_count = 0
    /\ skipped_bad = 0
    /\ le_last = NoStep

\* The state after the tokenizer is loaded (lines 89-109).
le_Init ==
    /\ le_pc = "scan"
    /\ tokenizer \in Tokenizers
    /\ args \in ArgSets
    /\ le_in \in LeFiles
    /\ processed = 0
    /\ le_fout = <<>>
    /\ le_written = 0
    /\ chunked_count = 0
    /\ truncated_count = 0
    /\ skipped_bad = 0
    /\ le_last = NoStep

\* The first pass and the report raise on a line that is JSON but no object
\* (obj.get, line 124) and on a record whose input or output is null
\* (inp[:200] and obj.get("output","")[:400], lines 150-151).
ScanRaises(file) ==
    \E i \in 1..Len(file) :
        \/ file[i].kind = "list"
        \/ /\ file[i].kind = "record"
           /\ \/ Get(file[i].obj, "input", <<>>) = None
              \/ Get(file[i].obj, "output", <<>>) = None

\* The first pass and the report of the longest entries (lines 111-151).
le_Scan ==
    /\ le_pc = "scan"
    /\ Len(le_in) <= TOPK
    /\ le_pc' = IF ScanRaises(le_in) THEN "raised" ELSE "write"
    /\ UNCHANGED <<tokenizer, args, le_in, processed, le_fout, le_written,
                   chunked_count, truncated_count, skipped_bad, le_last>>
    /\ UNCHANGED leOthers

\* One iteration of `for line in fin` of the second pass (lines 162-219).
le_WriteLine ==
    /\ le_pc = "write"
    /\ processed < Len(le_in)
    /\ processed' = processed + 1
    /\ UNCHANGED <<tokenizer, args, le_in>>
    /\ UNCHANGED leOthers
    /\ LET line  == le_in[processed + 1]
           obj   == line.obj
           inp   == OrEmpty(Get(obj, "input", <<>>))
           out   == OrEmpty(Get(obj, "output", <<>>))
           tlen  == token_length_of(tokenizer, inp \o <<"\n">> \o out)
           paras == paragraphs(out, args.min_para_chars)
           chunks == [i \in 1..Len(paras) |->
                         ChunkExample(obj, paras, i, args.make_prev_para)]
           cut   == truncate_output_tokenwise(tokenizer, inp, out, args.max_tokens)
           Raise == /\ le_pc' = "raised"
                    /\ le_last' = [NoStep EXCEPT !.path = "raised", !.obj = obj]
                    /\ UNCHANGED <<le_fout, le_written, chunked_count,
                                   truncated_count, skipped_bad>>
       IN  IF line.kind = "blank"
           THEN /\ le_last' = [NoStep EXCEPT !.path = "blank"]
                /\ UNCHANGED <<le_pc, le_fout, le_written, chunked_count,
                               truncated_count, skipped_bad>>
           ELSE IF line.kind = "malformed"
           THEN /\ skipped_bad' = skipped_bad + 1
                /\ le_last' = [NoStep EXCEPT !.path = "malformed"]
                /\ UNCHANGED <<le_pc, le_fout, le_written, chunked_count,
                               truncated_count>>
           ELSE IF line.kind = "list"
           THEN Raise
           ELSE IF WithinBudget(tlen, args.max_tokens)
           THEN /\ le_fout' = Append(le_fout, obj)
                /\ le_written' = le_written + 1
                /\ le_last' = [path |-> "unchanged", obj |-> obj, input |-> inp,
                               out |-> <<obj>>]
                /\ UNCHANGED <<le_pc, chunked_count, truncated_count, skipped_bad>>
           ELSE IF Len(paras) >= 2
           THEN IF ChunkRaises(obj, args.make_prev_para)
                THEN Raise
                ELSE /\ le_fout' = le_fout \o chunks
                     /\ le_written' = le_written + Len(paras)
                     /\ chunked_count' = chunked_count + 1
                     /\ le_last' = [path |-> "chunked", obj |-> obj, input |-> inp,
                                    out |-> chunks]
                     /\ UNCHANGED <<le_pc, truncated_count, skipped_bad>>
           ELSE IF cut.raised
           THEN Raise
           ELSE /\ le_fout' = Append(le_fout, WithOutput(obj, cut.value))
                /\ le_written' = le_written + 1
                /\ truncated_count' = truncated_count + 1
                /\ le_last' = [path |-> "truncated", obj |-> obj, input |-> inp,
                               out |-> <<WithOutput(obj, cut.value)>>]
                /\ UNCHANGED <<le_pc, chunked_count, skipped_bad>>

\* End of the input file: the totals are printed (lines 221-227).
le_Finish ==
    /\ le_pc = "write"
    /\ processed = Len(le_in)
    /\ le_pc' = "done"
    /\ UNCHANGED <<tokenizer, args, le_in, processed, le_fout, le_written,
                   chunked_count, truncated_count, skipped_bad, le_last>>
    /\ UNCHANGED leOthers

le_Next == le_Scan \/ le_WriteLine \/ le_Finish

(***************************************************************************)
(* backfill.py                                                             *)
(* The JSON text of an "input" is written with one character for a key and *)
(* its colon ("k:movie_title", "k:previous_scene"), the value between two  *)
(* quote characters, and "," or "," " " between two members; json.dumps    *)
(* always writes "," " ".                                                  *)
(***************************************************************************)
BfKeys == {"k:movie_title", "k:previous_scene"}

\* One member "key": "value"
Member(k, v) == <<k, "\"">> \o v \o <<"\"">>

\* The members of the text between the braces, as <<key, value>> pairs, or
\* <<"error">> when the text is no list of members.
RECURSIVE ParseMembers(_)
ParseMembers(body) ==
    IF Len(body) < 3 \/ body[1] \notin BfKeys \/ body[2] # "\""
       \/ ~\E j \in 3..Len(body) : body[j] = "\""
    THEN <<"error">>
    ELSE LET close == CHOOSE j \in 3..Len(body) :
                          body[j] = "\"" /\ \A i \in 3..(j - 1) : body[i] # "\""
             pair  == <<body[1], SubSeq(body, 3, close - 1)>>
             rest  == SubSeq(body, close + 1, Len(body))
             more  == IF Len(rest) >= 2 /\ rest[2] = " "
                      THEN SubSeq(rest, 3, Len(rest))
                      ELSE SubSeq(rest, 2, Len(rest))
         IN  IF rest = <<>> THEN <<pair>>
             ELSE IF rest[1] # "," THEN <<"error">>
             ELSE IF ParseMembers(more) = <<"error">> THEN <<"error">>
             ELSE <<pair>> \o ParseMembers(more)

\* json.loads(s) for the input of a record: kind "error" when it raises
\* (None and the empty string included), "list" for a JSON list, "dict"
\* with the members in their order.
loads(s) ==
    IF s = None \/ Len(s) < 2 THEN [kind |-> "error", members |-> <<>>]
    ELSE IF s = <<"[", "]">> THEN [kind |-> "list", members |-> <<>>]
    ELSE IF s = <<"{", "}">> THEN [kind |-> "dict", members |-> <<>>]
    ELSE IF s[1] = "{" /\ s[Len(s)] = "}"
            /\ ParseMembers(SubSeq(s, 2, Len(s) - 1)) # <<"error">>
    THEN [kind |-> "dict", members |-> ParseMembers(SubSeq(s, 2, Len(s) - 1))]
    ELSE [kind |-> "error", members |-> <<>>]

\* json.dumps(parsed, ensure_ascii=False)
RECURSIVE JoinMembers(_)
JoinMembers(members) ==
    IF members = <<>> THEN <<>>
    ELSE Member(members[1][1], members[1][2]) \o
         (IF Len(members) = 1 THEN <<>> ELSE <<",", " ">>) \o
         JoinMembers(Tail(members))

dumps(members) == <<"{">> \o JoinMembers(members) \o <<"}">>

\* parsed.get(k)
MemberGet(members, k) ==
    IF \E i \in 1..Len(members) : members[i][1] = k
    THEN members[CHOOSE i \in 1..Len(members) : members[i][1] = k][2]
    ELSE None

\* parsed[k] = v: in place when the key is there, else at the end
MemberSet(members, k, v) ==
    IF \E i \in 1..Len(members) : members[i][1] = k
    THEN [i \in 1..Len(members) |->
             IF members[i][1] = k THEN <<k, v>> ELSE members[i]]
    ELSE Append(members, <<k, v>>)

\* os.path.splitext(fname)[0]: the name up to its last dot, when that dot
\* comes after a character that is no dot.
splitext0(fname) ==
    LET dots == {i \in 1..Len(fname) :
                    fname[i] = "." /\ \E j \in 1..(i - 1) : fname[j] # "."}
    IN  IF dots = {} THEN fname
        ELSE SubSeq(fname, 1, (CHOOSE i \in dots : \A j \in dots : j <= i) - 1)

\* s in text
Contains(text, s) ==
    \E i \in 1..(Len(text) - Len(s) + 1) : SubSeq(text, i, i + Len(s) - 1) = s

LowerAll(s) == [i \in 1..Len(s) |-> Lower(s[i])]

\* difflib.get_close_matches(word, possibilities, n=1, cutoff): the best
\* possibility, or None; the cutoff is given in hundredths.
get_close_matches1(word, possibilities, hundredths) ==
    LET score == [i \in 1..Len(possibilities) |-> Ratio(possibilities[i], word)]
        close == {i \in 1..Len(possibilities) :
                     100 * score[i][1] >= hundredths * score[i][2]}
    IN  IF close = {} THEN None
        ELSE possibilities[CHOOSE i \in close :
                \A j \in close :
                    ~TupleLess(score[i], possibilities[i], score[j], possibilities[j])]

\* find_file_by_substring (lines 29-40); texts is file_texts, a list of
\* name and lowered text in the order of the dict.
find_file_by_substring(substr, texts, fuzzy_cutoff) ==
    LET s     == LowerAll(substr)
        hits  == {i \in 1..Len(texts) : Contains(texts[i].text, s)}
        names == [i \in 1..Len(texts) |-> texts[i].name]
    IN  IF hits # {} THEN texts[CHOOSE i \in hits : \A j \in hits : i <= j].name
        ELSE get_close_matches1(Prefix(substr, 50), names, fuzzy_cutoff)

\* not parsed.get("movie_title") (line 50)
NeedsTitleAlways(members) == TRUE
NeedsTitle(members) ==
    MemberGet(members, "k:movie_title") \in {None, <<>>}

\* inject_source(obj, fname) (lines 42-57); raised says that the handler of
\* line 56 raised, which it does when the input is null.
inject_source(obj, fname) ==
    LET inp     == Get(obj, "input", <<>>)
        parsed  == loads(inp)
        tagged  == [k \in DOMAIN obj \cup {"source_file"} |->
                       IF k = "source_file" THEN fname ELSE obj[k]]
        WithInput(v) == [k \in DOMAIN tagged \cup {"input"} |->
                            IF k = "input" THEN v ELSE tagged[k]]
    IN  IF parsed.kind = "error"
        THEN IF inp = None THEN [raised |-> TRUE, obj |-> tagged]
             ELSE [raised |-> FALSE,
                   obj |-> WithInput(<<"{">> \o Member("k:movie_title", splitext0(fname))
                                     \o <<",", " ">> \o Member("k:previous_scene", <<>>)
                                     \o <<"}">> \o inp)]
        ELSE IF parsed.kind = "dict" /\ NeedsTitle(parsed.members)
        THEN [raised |-> FALSE,
              obj |-> WithInput(dumps(MemberSet(parsed.members, "k:movie_title",
                                                splitext0(fname))))]
        ELSE [raised |-> FALSE, obj |-> tagged]

\* Number of lines of the JSONL file, and of files in --rawdir.
MaxBfLines == 2
MaxRawFiles == 2

\* The raw texts: name and content; both hold "xy" once lowered.
RawFilePool ==
    {[name |-> <<"a", "b", ".", "t", "x", "t">>, text |-> <<"X", "y", " ", "z">>],
     [name |-> <<"C", ".", "d", ".", "t", "x", "t">>, text |-> <<"x", "y">>]}

\* file_texts after lines 19-25: the files in the order of the directory
\* listing, their texts lowered.
FileTexts ==
    {[i \in 1..Len(fs) |-> [name |-> fs[i].name, text |-> LowerAll(fs[i].text)]] :
        fs \in KeyLists(RawFilePool, MaxRawFiles)}

BfEntry(inp, out) ==
    [k \in {"input", "output"} |-> IF k = "input" THEN inp ELSE out]

Untitled == <<"{">> \o Member("k:previous_scene", <<"p">>) \o <<"}">>

\* Inputs: with a title (json.dumps' spelling, and one with a bare comma),
\* with an empty title, without title, no JSON, a JSON list, null.
BfInputs ==
    {<<"{">> \o Member("k:movie_title", <<"M">>) \o <<"}">>,
     <<"{">> \o Member("k:previous_scene", <<"p">>) \o <<",">>
            \o Member("k:movie_title", <<"M">>) \o <<"}">>,
     <<"{">> \o Member("k:movie_title", <<>>) \o <<",">>
            \o Member("k:previous_scene", <<"p">>) \o <<"}">>,
     Untitled, <<"z", "z">>, <<"[", "]">>, None}

\* Outputs: found in the raw texts, like a file name, unknown, blank, null.
BfOutputs ==
    {<<" ", "X", "y">>, <<"a", "b", ".", "t", "x", "t">>, <<"q">>, <<" ">>, None}

BfRecords ==
    {BfEntry(inp, <<" ", "X", "y">>) : inp \in BfInputs} \cup
    {BfEntry(Untitled, out) : out \in BfOutputs} \cup
    {[k \in {"id"} |-> <<"7">>]}

BfLines ==
    {[kind |-> "malformed", obj |-> BfEntry(<<>>, <<>>)],
     [kind |-> "list", obj |-> BfEntry(<<>>, <<>>)]} \cup
    {[kind |-> "record", obj |-> o] : o \in BfRecords}

\* --substr_len and --fuzzy_cutoff (in hundredths)
BfArgs == [substr_len : {2, 120}, fuzzy_cutoff : {75}]

BfNoStep ==
    [path |-> "none", obj |-> BfEntry(<<>>, <<>>), fname |-> None,
     out |-> BfEntry(<<>>, <<>>)]

bf_Idle ==
    /\ bf_pc = "idle"
    /\ bf_args = [substr_len |-> 120, fuzzy_cutoff |-> 75]
    /\ file_texts = <<>>
    /\ bf_i = 0
    /\ bf_fout = <<>>
    /\ found = 0
    /\ not_found = 0
    /\ bf_last = BfNoStep

\* The state after file_texts is loaded and both files are open (lines 5-61).
bf_Init ==
    /\ bf_pc = "loop"
    /\ bf_args \in BfArgs
    /\ file_texts \in FileTexts
    /\ bf_i = 0
    /\ bf_fout = <<>>
    /\ found = 0
    /\ not_found = 0
    /\ bf_last = BfNoStep

\* One iteration of `for i, line in enumerate(fin, 1)` (lines 62-82).
bf_ReadLine(line) ==
    /\ bf_pc = "loop"
    /\ bf_i < MaxBfLines
    /\ bf_i' = bf_i + 1
    /\ UNCHANGED <<bf_args, file_texts>>
    /\ UNCHANGED bfOthers
    /\ LET obj     == line.obj
           outtext == Get(obj, "output", <<>>)
           cand    == Prefix(strip(outtext), bf_args.substr_len)
           fname   == find_file_by_substring(cand, file_texts, bf_args.fuzzy_cutoff)
           tagged  == inject_source(obj, fname)
           Raise   == /\ bf_pc' = "raised"
                      /\ bf_last' = [BfNoStep EXCEPT !.path = "raised", !.obj = obj]
                      /\ UNCHANGED <<bf_fout, found, not_found>>
       IN  IF line.kind = "malformed"
           THEN /\ bf_last' = [BfNoStep EXCEPT !.path = "malformed"]
                /\ UNCHANGED <<bf_pc, bf_fout, found, not_found>>
           ELSE IF line.kind = "list" \/ outtext = None
           THEN Raise
           ELSE IF strip(outtext) = <<>>
           THEN /\ not_found' = not_found + 1
                /\ bf_fout' = Append(bf_fout, obj)
                /\ bf_last' = [path |-> "blank", obj |-> obj, fname |-> None,
                               out |-> obj]
                /\ UNCHANGED <<bf_pc, found>>
           ELSE IF fname = None
           THEN /\ not_found' = not_found + 1
                /\ bf_fout' = Append(bf_fout, obj)
                /\ bf_last' = [path |-> "not found", obj |-> obj, fname |-> None,
                               out |-> obj]
                /\ UNCHANGED <<bf_pc, found>>
           ELSE IF tagged.raised
           THEN Raise
           ELSE /\ found' = found + 1
                /\ bf_fout' = Append(bf_fout, tagged.obj)
                /\ bf_last' = [path |-> "found", obj |-> obj, fname |-> fname,
                               out |-> tagged.obj]
                /\ UNCHANGED <<bf_pc, not_found>>

\* End of the file: line 84 prints i, which has no value when the file had
\* no line.
bf_Finish ==
    /\ bf_pc = "loop"
    /\ bf_pc' = IF bf_i = 0 THEN "raised" ELSE "done"
    /\ UNCHANGED <<bf_args, file_texts, bf_i, bf_fout, found, not_found, bf_last>>
    /\ UNCHANGED bfOthers

bf_Next == (\E line \in BfLines : bf_ReadLine(line)) \/ bf_Finish

(***************************************************************************)
(* Harness: extract_movie_key applied to one record                        *)
(***************************************************************************)
ek_Idle == ek_obj = NoObj /\ ek_key = <<>> /\ ek_done = FALSE

InitDedupe == dc_Init /\ ek_Idle /\ tv_Idle /\ fm_Idle /\ ss_Idle /\ sc_Idle /\ le_Idle /\ bf_Idle

SpecDedupe == InitDedupe /\ [][dc_Next]_vars

\* The records written so far whose movie key is k.
WrittenWithKey(k) ==
    {i \in 1..Len(fout) : strip(extract_movie_key(fout[i])) = k}

\* C1: for every movie key, counts[key] is the number of records written
\* with that key, and it never exceeds CAP.
C1_CapRespected ==
    \A i \in 1..Len(fout) :
        LET k == strip(extract_movie_key(fout[i]))
        IN  /\ Cardinality(WrittenWithKey(k)) <= CAP
            /\ CountOf(counts, k) = Cardinality(WrittenWithKey(k))

\* C1 witness: a movie is at its quota and a further record of it was refused.
C1_Witness ==
    /\ dc_last.verdict = "cap"
    /\ CountOf(counts, strip(extract_movie_key(dc_last.line.obj))) = CAP
    /\ Cardinality(WrittenWithKey(strip(extract_movie_key(dc_last.line.obj)))) = CAP

\* C2: the output file never holds two records with the same input and the
\* same output.
C2_NoExactDuplicates ==
    \A i, j \in 1..Len(fout) :
        i < j => ~(fout[i].input = fout[j].input /\ fout[i].output = fout[j].output)

\* C2 witness: the line just read repeats a written record and was skipped.
C2_Witness ==
    /\ dc_last.verdict = "dup"
    /\ \E i \in 1..Len(fout) :
          /\ fout[i].input = dc_last.line.obj.input
          /\ fout[i].output = dc_last.line.obj.output

\* C3: a record is skipped as a duplicate only if a written record has exactly
\* the same input and exactly the same output.
C3_ExactDuplicatesOnly ==
    dc_last.verdict = "dup" =>
        \E i \in 1..Len(fout) :
            /\ fout[i].input = dc_last.line.obj.input
            /\ fout[i].output = dc_last.line.obj.output

(***************************************************************************)
(* SpecKey: extract_movie_key on every shape of record                     *)
(***************************************************************************)
TopVal(k) == <<"t:" \o k>>

AllMembers ==
    <<"i:movie_title", "i:title", "i:MovieTitle", "i:movie", "i:source_file",
      "i:md", "d:title", "d:movie_title", "d:name", "d:genre", "d:tone">>

IsMdChar(c) == c \in {MdChar(MdKeys[i]) : i \in 1..Len(MdKeys)}

\* json.dumps of an object holding exactly the members S
JsonText(S) ==
    LET In(c) == c \in S IN <<"{">> \o SelectSeq(AllMembers, In) \o <<"}">>

KeyInputs ==
    {<<"x">>, <<"[", "]">>} \cup
    {JsonText(S) : S \in {T \in SUBSET Range(AllMembers) :
                             (\E c \in T : IsMdChar(c)) => "i:md" \in T}}

KeyObjs ==
    {[is_dict |-> TRUE,
      top |-> [k \in Range(TopKeys) |-> IF k \in T THEN TopVal(k) ELSE <<>>],
      input_is_str |-> TRUE, input |-> inp, output |-> <<>>] :
        T \in SUBSET Range(TopKeys), inp \in KeyInputs}
    \cup
    {[is_dict |-> d,
      top |-> [k \in Range(TopKeys) |-> <<>>],
      input_is_str |-> FALSE, input |-> <<>>, output |-> <<>>] : d \in BOOLEAN}

ek_Init == ek_obj \in KeyObjs /\ ek_key = <<>> /\ ek_done = FALSE

ek_Extract ==
    /\ ~ek_done
    /\ ek_key' = extract_movie_key(ek_obj)
    /\ ek_done' = TRUE
    /\ UNCHANGED ek_obj
    /\ UNCHANGED ekOthers

ek_Next == ek_Extract

InitKey == ek_Init /\ dc_Init /\ tv_Idle /\ fm_Idle /\ ss_Idle /\ sc_Idle /\ le_Idle /\ bf_Idle

SpecKey == InitKey /\ [][ek_Next]_vars

\* The values a record holds for identifier k, at top level or inside its
\* JSON-encoded input.
ValuesOf(obj, k) ==
    LET parsed == json_loads(obj.input)
    IN  (IF obj.is_dict /\ obj.top[k] # <<>> THEN {strip(obj.top[k])} ELSE {})
        \cup
        (IF obj.is_dict /\ obj.input_is_str /\ parsed.kind = "dict"
            /\ parsed.top[k] # <<>>
         THEN {strip(parsed.top[k])} ELSE {})

MdTitleOf(obj) ==
    LET parsed == json_loads(obj.input)
    IN  IF obj.is_dict /\ obj.input_is_str /\ parsed.kind = "dict"
           /\ parsed.md_is_dict /\ parsed.md["title"] # <<>>
        THEN {strip(parsed.md["title"])} ELSE {}

\* The documented order (module docstring, lines 4-11).
DocOrder == <<"source_file", "movie_title", "title", "MovieTitle", "movie">>

\* The identifiers the documented order allows as the result: those of the
\* first documented field the record holds; {} when it holds none.
Documented(obj) ==
    LET hits == {i \in 1..Len(DocOrder) : ValuesOf(obj, DocOrder[i]) # {}}
    IN  IF hits # {}
        THEN ValuesOf(obj, DocOrder[CHOOSE i \in hits : \A j \in hits : i <= j])
        ELSE MdTitleOf(obj)

IsGenreKey(key) == key # <<>> /\ key[1] = "__GENRE_"

\* C4: the key is the first non-empty identifier in the documented order,
\* wherever it occurs; a genre key is returned only when the record holds no
\* identifier.
C4_DocumentedOrder ==
    ek_done =>
        /\ Documented(ek_obj) # {} => ek_key \in Documented(ek_obj)
        /\ IsGenreKey(ek_key) => Documented(ek_obj) = {}

(***************************************************************************)
(* SpecSplit: create_train_val.py, run twice                               *)
(***************************************************************************)
InitSplit == tv_Init /\ dc_Init /\ ek_Idle /\ fm_Idle /\ ss_Idle /\ sc_Idle /\ le_Idle /\ bf_Idle

SpecSplit == InitSplit /\ [][tv_Next]_vars

EndsWith(s, t) == Len(s) >= Len(t) /\ SubSeq(s, Len(s) - Len(t) + 1, Len(s)) = t

\* C5: two runs on the same file write the same train and validation files,
\* and two runs on files with the same number of lines send every line
\* index that both write to the same side.
C5_Deterministic ==
    (tv_run = 2 /\ tv_pc = "done") =>
        /\ tv_prev.file = tv_in => (tv_prev.train = ftrain /\ tv_prev.val = fval)
        /\ \A i \in 1..Len(tv_in) :
              (placed[i].side # "none" /\ tv_prev.placed[i].side # "none")
                  => placed[i].side = tv_prev.placed[i].side

\* C5 witness: the second run read a different file with a record at the
\* validation index in both runs, and both runs wrote to both sides.
C5_Witness ==
    /\ tv_run = 2 /\ tv_pc = "done"
    /\ tv_prev.file # tv_in
    /\ written_val = 1 /\ written_train >= 1
    /\ Len(tv_prev.val) = 1 /\ Len(tv_prev.train) >= 1
    /\ fval # tv_prev.val

\* C6: every written output ends with exactly one stop marker, also when the
\* record's output already ended with the marker.
C6_StopIdempotent ==
    \A i \in 1..Len(placed) :
        placed[i].side # "none" =>
            /\ EndsWith(placed[i].output, STOP)
            /\ ~EndsWith(placed[i].output, STOP \o STOP)

(***************************************************************************)
(* SpecMatch: find_best_title_match on one title and one list of keys      *)
(***************************************************************************)
InitMatch == fm_Init /\ dc_Init /\ ek_Idle /\ tv_Idle /\ ss_Idle /\ sc_Idle /\ le_Idle /\ bf_Idle

SpecMatch == InitMatch /\ [][fm_Next]_vars

\* C8: an exact match wins; failing that, the first key with the same
\* normalized form wins over every fuzzy candidate; and the result is None
\* or one of the keys.
C8_MatchOrder ==
    fm_done =>
        /\ fm_title \in Range(fm_keys) => fm_result = fm_title
        /\ (fm_title \notin Range(fm_keys)
            /\ \E i \in 1..Len(fm_keys) :
                  normalize_title(fm_keys[i]) = normalize_title(fm_title))
           => /\ fm_result \in Range(fm_keys)
              /\ normalize_title(fm_result) = normalize_title(fm_title)
        /\ fm_result = None \/ fm_result \in Range(fm_keys)

\* C8 witness: a key with the same normalized form was returned although the
\* fuzzy stage would have picked another key.
C8_Witness ==
    /\ fm_done
    /\ fm_title \notin Range(fm_keys)
    /\ normalize_title(fm_result) = normalize_title(fm_title)
    /\ get_close_match(fm_title, fm_keys) \notin {None, fm_result}

(***************************************************************************)
(* SpecScenes: scenes_split.py                                             *)
(***************************************************************************)
InitScenes == ss_Init /\ dc_Init /\ ek_Idle /\ tv_Idle /\ fm_Idle /\ sc_Idle /\ le_Idle /\ bf_Idle

SpecScenes == InitScenes /\ [][ss_Next]_vars

\* C7: a file that matches a row and splits into n >= 2 scenes adds exactly
\* n-1 examples, in order; example i pairs scene i-1 with scene i, so each
\* output is the previous_scene of the next example; and every example holds
\* the genre, theme and tone of the matched row.
C7_ConsecutivePairs ==
    [][ (ss_files' = ss_files + 1
         /\ MatchTitle(ss_last'.file.stem, TitleKeys(movie_details_dict)) # None
         /\ ss_last'.file.readable
         /\ Len(split_script_into_scenes(ss_last'.file.content)) >= 2)
        =>
        LET s   == split_script_into_scenes(ss_last'.file.content)
            n   == Len(s)
            row == CHOOSE r \in Range(movie_details_dict) :
                      r.title = ss_last'.match_title
            new == SubSeq(f_out', Len(f_out) + 1, Len(f_out'))
        IN  /\ SubSeq(f_out', 1, Len(f_out)) = f_out
            /\ Len(new) = n - 1
            /\ \A i \in 1..(n - 1) :
                  /\ new[i].input.previous_scene = s[i]
                  /\ new[i].output = s[i + 1]
                  /\ i < n - 1 => new[i].output = new[i + 1].input.previous_scene
                  /\ new[i].input.movie_details.genre = DetailsGet(row.details, "Genre")
                  /\ new[i].input.movie_details.theme = DetailsGet(row.details, "Theme")
                  /\ new[i].input.movie_details.tone = DetailsGet(row.details, "Tone")
      ]_vars

\* C7 witness: a file of three scenes or more was written after another file.
C7_Witness ==
    /\ ss_last.verdict = "written"
    /\ Len(split_script_into_scenes(ss_last.file.content)) >= 3
    /\ Len(f_out) > Len(split_script_into_scenes(ss_last.file.content)) - 1

(***************************************************************************)
(* SpecScript: script.py, run several times                                *)
(***************************************************************************)
InitScript == sc_Init /\ dc_Init /\ ek_Idle /\ tv_Idle /\ fm_Idle /\ ss_Idle /\ le_Idle /\ bf_Idle

SpecScript == InitScript /\ [][sc_Next]_vars

\* The data rows of dataset.csv (every row after the first line) of a title.
DataRowsOf(title) ==
    {i \in 2..Len(dataset_csv.rows) : dataset_csv.rows[i].title = title}

\* C9: over any sequence of runs every title is in at most one data row of
\* dataset.csv.
C9_TitleOnce ==
    \A i \in 2..Len(dataset_csv.rows) :
        Cardinality(DataRowsOf(dataset_csv.rows[i].title)) <= 1

(***************************************************************************)
(* long_entries.py: the truncation of an over-budget entry                 *)
(***************************************************************************)
InitLong == le_Init /\ dc_Init /\ ek_Idle /\ tv_Idle /\ fm_Idle /\ ss_Idle /\ sc_Idle /\ bf_Idle

SpecLong == InitLong /\ [][le_Next]_vars

\* The number of tokens the tokenizer of the run cuts a text into.
token_count(text) == Len(input_ids(tokenizer, text))

\* C10: an entry written by the truncation branch has
\* token_count(input) + token_count(output) <= max_tokens.
C10_TruncatedWithinBudget ==
    le_last.path = "truncated" =>
        token_count(le_last.input) + token_count(le_last.out[1]["output"])
            <= args.max_tokens

\* The record of the last step of the second pass, when that step was on a
\* record over the budget.
LastOverBudget ==
    /\ le_last.path \in {"unchanged", "chunked", "truncated", "raised"}
    /\ token_length_of(tokenizer,
                       OrEmpty(Get(le_last.obj, "input", <<>>)) \o <<"\n">> \o
                       OrEmpty(Get(le_last.obj, "output", <<>>))) > args.max_tokens

\* The paragraphs of at least min_para_chars characters of its output.
LastParagraphs ==
    paragraphs(OrEmpty(Get(le_last.obj, "output", <<>>)), args.min_para_chars)

\* json.loads(inp)["previous_scene"] of an input written by the chunk branch.
Unescaped(text) == [i \in 1..Len(text) |-> IF text[i] = "\\n" THEN "\n" ELSE text[i]]

HasPreviousScene(inp) == \E j \in 1..Len(inp) : inp[j] = "p:"

PreviousSceneOf(inp) ==
    LET j == CHOOSE i \in 1..Len(inp) : inp[i] = "p:"
    IN  Unescaped(SubSeq(inp, j + 2, Len(inp) - 2))

\* C11: a record over the budget with two paragraphs or more (of at least
\* min_para_chars characters) is written as one example per paragraph, in
\* order, with that paragraph as output and, under --make_prev_para with a
\* JSON-object input, the paragraph before it as previous_scene (the empty
\* string for the first); with fewer paragraphs it is written as exactly one
\* truncated example.
C11_ChunkOrTruncate ==
    LastOverBudget =>
        IF Len(LastParagraphs) >= 2
        THEN /\ le_last.path = "chunked"
             /\ Len(le_last.out) = Len(LastParagraphs)
             /\ \A i \in 1..Len(LastParagraphs) :
                   /\ le_last.out[i]["output"] = LastParagraphs[i]
                   /\ (/\ args.make_prev_para
                       /\ json_loads(OrEmpty(Get(le_last.obj, "input", <<>>))).kind = "dict")
                      => /\ HasPreviousScene(le_last.out[i]["input"])
                         /\ PreviousSceneOf(le_last.out[i]["input"]) =
                               IF i = 1 THEN <<>> ELSE LastParagraphs[i - 1]
        ELSE /\ le_last.path = "truncated"
             /\ Len(le_last.out) = 1

\* The line that the next step of the second pass reads.
NextLine == le_in[processed + 1]

NextShort ==
    /\ NextLine.kind = "record"
    /\ token_length_of(tokenizer,
                       OrEmpty(Get(NextLine.obj, "input", <<>>)) \o <<"\n">> \o
                       OrEmpty(Get(NextLine.obj, "output", <<>>))) <= args.max_tokens

NotRecord(line) == line.kind \in {"malformed", "list"}

\* C13: a line that is no valid JSON record aborts neither pass, writes no
\* record and is counted in skipped_bad, and the lines after it are still
\* processed.
C13_MalformedSkipped ==
    /\ (le_pc = "raised" /\ le_last.path # "raised")
          => \A i \in 1..Len(le_in) : ~NotRecord(le_in[i])
    /\ le_last.path = "raised" => ~NotRecord(le_in[processed])
    /\ le_last.path = "malformed" => le_last.out = <<>>
    /\ le_pc \in {"write", "done"}
          => skipped_bad = Cardinality({i \in 1..processed : NotRecord(le_in[i])})
    /\ le_pc = "done" => processed = Len(le_in)

(***************************************************************************)
(* backfill.py: which records get a title                                  *)
(***************************************************************************)
InitBackfill ==
    bf_Init /\ dc_Init /\ ek_Idle /\ tv_Idle /\ fm_Idle /\ ss_Idle /\ sc_Idle /\ le_Idle

SpecBackfill == InitBackfill /\ [][bf_Next]_vars

\* The input of the record the last step read, parsed, and its movie_title.
LastInput == loads(Get(bf_last.obj, "input", <<>>))
LastTitle == MemberGet(LastInput.members, "k:movie_title")

\* The name of a file of --rawdir without its extension ".txt".
WithoutTxt(fname) == SubSeq(fname, 1, Len(fname) - 4)

\* C14: a record with a source file and a JSON input without (or with an
\* empty) movie_title gets the file name without extension as movie_title;
\* a record whose input has a non-empty movie_title keeps its input string;
\* a record without source file, or with a blank output, is written as it
\* was read.
C14_TitleOnlyWhenMissing ==
    /\ bf_last.path \in {"found", "not found", "blank"}
          => bf_fout[Len(bf_fout)] = bf_last.out
    /\ (bf_last.path = "found" /\ LastInput.kind = "dict" /\ LastTitle \in {None, <<>>})
          => MemberGet(loads(bf_last.out["input"]).members, "k:movie_title")
                = WithoutTxt(bf_last.fname)
    /\ (bf_last.path = "found" /\ LastInput.kind = "dict" /\ LastTitle \notin {None, <<>>})
          => bf_last.out["input"] = bf_last.obj["input"]
    /\ bf_last.path \in {"not found", "blank"} => bf_last.out = bf_last.obj

C14_Witness ==
    /\ bf_last.path = "found"
    /\ LastInput.kind = "dict"
    /\ LastTitle = <<>>
    /\ bf_last.fname = <<"C", ".", "d", ".", "t", "x", "t">>
    /\ MemberGet(loads(bf_last.out["input"]).members, "k:movie_title") = <<"C", ".", "d">>
    /\ Len(bf_fout) = 2
    /\ Get(bf_fout[1], "input", None) =
          <<"{">> \o Member("k:previous_scene", <<"p">>) \o <<",">>
                 \o Member("k:movie_title", <<"M">>) \o <<"}">>

(***************************************************************************)
(* scenes_split.py: which CSV row a file gets                              *)
(***************************************************************************)
\* The CSV title that the whole file stem of the last file matches, or None.
FullStemMatch ==
    find_best_title_match(ss_last.file.stem, TitleKeys(movie_details_dict))

\* C15: when the whole stem of a file matches a CSV title, the row chosen
\* for the file is the one the whole stem matches.
C15_FullStemPreferred ==
    (ss_last.verdict # "none" /\ FullStemMatch # None)
        => ss_last.match_title = FullStemMatch

(***************************************************************************)
(* create_train_val.py: the size of the validation file                    *)
(***************************************************************************)
\* C16: a finished run on a file of total >= 1 lines has written exactly
\* max(1, floor(0.05 * total)) records to the validation file.
C16_ValCount ==
    tv_pc = "done" =>
        /\ written_val = Max(1, (Len(tv_in) * 5) \div 100)
        /\ Len(fval) = written_val

\* A line that json.loads accepts and that is not empty.
Parseable(line) == line.kind \in {"record", "list"}

\* C17: when the script has ended, every non-empty parseable line is in
\* exactly one of train and val, on the side its index of the first pass
\* gives it; blank and malformed lines are in neither; and written_train +
\* written_val is the number of non-empty parseable lines.
C17_Partition ==
    tv_pc \in {"done", "raised"} =>
        /\ \A n \in 1..Len(tv_in) :
              IF Parseable(tv_in[n])
              THEN /\ n <= Len(placed)
                   /\ placed[n].side = IF (n - 1) \in val_idx THEN "val" ELSE "train"
              ELSE n <= Len(placed) => placed[n].side = "none"
        /\ Len(ftrain) = written_train
        /\ Len(fval) = written_val
        /\ written_train + written_val =
              Cardinality({n \in 1..Len(tv_in) : Parseable(tv_in[n])})
====
